---- MODULE Spec2Model ----
(***************************************************************************)
(* Model of the Issa Compass reply assistant: the versioned prompt store   *)
(* (prompt_store.py), the AI client (ai_client.py), the dataset builder    *)
(* (dataset_builder.py) and the HTTP service (app.py).                     *)
(*                                                                         *)
(* A text is a sequence of one-character strings.  Every call of the       *)
(* program runs in a process; a process executes one statement group at a  *)
(* time (one SQL statement, one LLM round trip), so that overlapping calls *)
(* interleave exactly where the code lets them.                            *)
(***************************************************************************)
EXTENDS Integers, Sequences, FiniteSets, TLC

VARIABLES
    \* the prompt store and the processes calling into the program
    schema, table, pc, stack, op, arg, loc, retv, snap,
    \* what the completion service answered to the process's last round trip
    llm,
    \* the SQL statements and AI client calls the process's call has executed
    trace,
    \* dataset_builder.build_samples (bi is its scan index i)
    conversations, bpc, ci, bi, history, samples, heap,
    \* app._normalize_chat_history
    raw_history, normalized, nk, npc

svars == <<schema, table, pc, stack, op, arg, loc, retv, snap, llm, trace>>
bvars == <<conversations, bpc, ci, bi, history, samples, heap>>
nvars == <<raw_history, normalized, nk, npc>>
vars == <<svars, bvars, nvars>>

-----------------------------------------------------------------------------
(* Bounds of the model.                                                    *)

\* longest text handed to save_new_prompt by a direct caller
MaxLen == 2
\* most rows the prompts table is let to hold when calls do not overlap
MaxRows == 3
\* most rows the prompts table is let to hold when calls overlap
MaxConcRows == 2

Procs == {"p1", "p2"}
\* readings of datetime.utcnow().isoformat()
Times == {"2024-01-01T00:00:00", "2024-01-01T00:00:01"}
\* texts handed to save_new_prompt by overlapping callers
ConcTexts == {<<" ">>, <<"a">>, <<" ", "b">>}
\* most messages of all the conversations handed to build_samples
MaxMsgs == 4
\* most entries of a raw chat history handed to _normalize_chat_history
MaxHist == 3

-----------------------------------------------------------------------------
(* Texts.                                                                  *)

Whitespace == {" ", "\n"}
Chars == {" ", "a"}

RECURSIVE LStrip(_)
LStrip(s) == IF s # <<>> /\ Head(s) \in Whitespace THEN LStrip(Tail(s)) ELSE s

RECURSIVE RStrip(_)
RStrip(s) ==
    IF s # <<>> /\ s[Len(s)] \in Whitespace
    THEN RStrip(SubSeq(s, 1, Len(s) - 1))
    ELSE s

\* a strip of the left end only
StripLeftOnly(s) == LStrip(s)

\* str.strip()
Strip(s) == RStrip(LStrip(s))

\* every text of at most n characters
TextsUpTo(n) == UNION {[1..k -> Chars] : k \in 0..n}

DEFAULT_BASE_PROMPT == Strip(<<"\n", "d", "\n">>)

-----------------------------------------------------------------------------
(* The prompts table: row i has id i (AUTOINCREMENT).                      *)

Row(version, prompt_text, created_at) ==
    [version |-> version, prompt_text |-> prompt_text, created_at |-> created_at]

Versions(t) == {t[i].version : i \in 1..Len(t)}

\* SELECT COALESCE(MAX(version), 0) FROM prompts
MaxVersion(t) ==
    IF t = <<>> THEN 0
    ELSE CHOOSE v \in Versions(t) : \A w \in Versions(t) : w <= v

\* the rows of the least version (ORDER BY version ASC)
OldestRows(t) ==
    {i \in 1..Len(t) : \A j \in 1..Len(t) : t[i].version <= t[j].version}

\* SELECT prompt_text FROM prompts ORDER BY version DESC LIMIT 1:
\* the rows the statement may return (any row of the greatest version)
LatestRows(t) == {i \in 1..Len(t) : t[i].version = MaxVersion(t)}

\* SELECT COUNT(1) FROM prompts
CountRows(t) == Len(t)

\* a write that overwrites the newest row instead of adding one
ReplaceNewestRow(t, version, prompt_text, now) ==
    IF t = <<>> THEN <<Row(version, prompt_text, now)>>
    ELSE [t EXCEPT ![Len(t)] = Row(version, prompt_text, now)]

\* INSERT INTO prompts (version, prompt_text, created_at) VALUES (?, ?, ?)
InsertRow(t, version, prompt_text, now) ==
    Append(t, Row(version, prompt_text, now))

\* SELECT version, prompt_text, created_at FROM prompts
\* ORDER BY version DESC LIMIT ?   (rows of equal version in either order)
ListResults(t, limit) ==
    LET n == Len(t)
        k == IF limit < 0 \/ limit > n THEN n ELSE limit
        orders == {f \in [1..n -> 1..n] :
                     /\ \A i, j \in 1..n : i # j => f[i] # f[j]
                     /\ \A i, j \in 1..n :
                          i < j => t[f[i]].version >= t[f[j]].version}
    IN  {[i \in 1..k |-> t[f[i]]] : f \in orders}

-----------------------------------------------------------------------------
(* Values a call hands back to its caller.                                 *)

NoValue == [kind |-> "none"]
StrVal(s) == [kind |-> "str", s |-> s]
RowsVal(rows) == [kind |-> "rows", rows |-> rows]
Raised(exc) == [kind |-> "raise", exc |-> exc]
\* no round trip to the completion service yet
NoOutcome == [kind |-> "none"]
\* a response of the HTTP service: jsonify(body), status
Http(status, body) == [kind |-> "http", status |-> status, body |-> body]

\* JSON values (of a request body, of the content of a completion)
JAbsent == [type |-> "absent"]
JNull == [type |-> "null"]
JNumber == [type |-> "number"]
JStr(s) == [type |-> "string", s |-> s]
JList(items) == [type |-> "list", items |-> items]
IsStr(v) == v.type = "string"
IsList(v) == v.type = "list"

\* the locals of the functions a process is inside of
LocInit ==
    [count |-> 0, new_prompt |-> <<>>, current_version |-> 0,
     base_prompt |-> <<>>, normalized_history |-> <<>>,
     predicted_reply |-> <<>>, existing_prompt |-> <<>>,
     updated_prompt |-> <<>>, samples |-> <<>>, idx |-> 0, prompt |-> <<>>,
     predicted |-> <<>>]

\* a request body that is a JSON object; a key it lacks carries JAbsent
Data(clientSequence, chatHistory, consultantReply, instructions) ==
    [type |-> "object", clientSequence |-> clientSequence,
     chatHistory |-> chatHistory, consultantReply |-> consultantReply,
     instructions |-> instructions]

\* no body, a malformed body or a falsy one: request.get_json(...) or {}
EmptyData == Data(JAbsent, JAbsent, JAbsent, JAbsent)

ArgInit ==
    [text |-> <<>>, limit |-> 0, data |-> EmptyData, conversations |-> <<>>]

-----------------------------------------------------------------------------
(* Calls, returns and exceptions.                                          *)

Idle(p) == pc[p] = "idle"

\* a caller outside the program calls a function of it
Begin(p, name, a, label) ==
    /\ Idle(p)
    /\ op' = [op EXCEPT ![p] = name]
    /\ arg' = [arg EXCEPT ![p] = a]
    /\ pc' = [pc EXCEPT ![p] = label]
    /\ stack' = [stack EXCEPT ![p] = <<"done">>]
    /\ snap' = [snap EXCEPT ![p] = table]
    /\ trace' = [trace EXCEPT ![p] = <<>>]

\* an SQL statement that was executed
Stmt(name) == [name |-> name, ok |-> TRUE, text |-> <<>>]

\* SELECT prompt_text ... LIMIT 1 and the text it fetched (none: empty)
Select(text) == [name |-> "select", ok |-> TRUE, text |-> text]

\* a call of the AI client, the prompt it was given and whether it returned
AiCall(name, result, prompt) ==
    [name |-> name, ok |-> result.kind # "raise", text |-> prompt]

\* the call of p has executed e
Log(p, e) == trace' = [trace EXCEPT ![p] = Append(trace[p], e)]

\* return v to the caller
Return(p, v) ==
    /\ pc' = [pc EXCEPT ![p] = Head(stack[p])]
    /\ stack' = [stack EXCEPT ![p] = Tail(stack[p])]
    /\ retv' = [retv EXCEPT ![p] = v]

\* an exception no frame of the process catches ends the outermost call
Unhandled(p, exc) ==
    /\ pc' = [pc EXCEPT ![p] = "done"]
    /\ stack' = [stack EXCEPT ![p] = <<>>]
    /\ retv' = [retv EXCEPT ![p] = Raised(exc)]

\* call a function of the program, to continue at label `cont`
Call(p, label, cont) ==
    /\ pc' = [pc EXCEPT ![p] = label]
    /\ stack' = [stack EXCEPT ![p] = <<cont>> \o stack[p]]

\* _ensure_db: CREATE TABLE IF NOT EXISTS prompts
EnsureDb == schema' = TRUE

-----------------------------------------------------------------------------
(* prompt_store.get_latest_prompt                                          *)

CallGetLatestPrompt(p) ==
    /\ Begin(p, "get_latest_prompt", ArgInit, "glp_select")
    /\ UNCHANGED <<schema, table, loc, retv, llm, bvars, nvars>>

\* lines 61-73: the first SELECT; a row with a non-empty text is returned,
\* otherwise initialize_prompt_if_empty is called
GlpSelect(p) ==
    /\ pc[p] = "glp_select"
    /\ EnsureDb
    /\ \/ /\ table = <<>>
          /\ Call(p, "init_count", "glp_reselect")
          /\ Log(p, Select(<<>>))
          /\ UNCHANGED retv
       \/ \E i \in LatestRows(table) :
             /\ IF table[i].prompt_text # <<>>
                THEN Return(p, StrVal(table[i].prompt_text))
                ELSE Call(p, "init_count", "glp_reselect") /\ UNCHANGED retv
             /\ Log(p, Select(table[i].prompt_text))
    /\ UNCHANGED <<table, op, arg, loc, snap, llm, bvars, nvars>>

\* lines 74-81: the second SELECT
GlpReselect(p) ==
    /\ pc[p] = "glp_reselect"
    /\ EnsureDb
    /\ \/ /\ table = <<>>
          /\ Return(p, StrVal(DEFAULT_BASE_PROMPT))
          /\ Log(p, Select(<<>>))
       \/ \E i \in LatestRows(table) :
             /\ Return(p, StrVal(IF table[i].prompt_text # <<>>
                                 THEN table[i].prompt_text
                                 ELSE DEFAULT_BASE_PROMPT))
             /\ Log(p, Select(table[i].prompt_text))
    /\ UNCHANGED <<table, op, arg, loc, snap, llm, bvars, nvars>>

-----------------------------------------------------------------------------
(* prompt_store.initialize_prompt_if_empty                                 *)

CallInitializePromptIfEmpty(p) ==
    /\ Begin(p, "initialize_prompt_if_empty", ArgInit, "init_count")
    /\ UNCHANGED <<schema, table, loc, retv, llm, bvars, nvars>>

\* lines 88-93: SELECT COUNT(1)
InitCount(p) ==
    /\ pc[p] = "init_count"
    /\ EnsureDb
    /\ loc' = [loc EXCEPT ![p].count = CountRows(table)]
    /\ pc' = [pc EXCEPT ![p] = "init_insert"]
    /\ Log(p, Stmt("count"))
    /\ UNCHANGED <<table, stack, op, arg, retv, snap, llm, bvars, nvars>>

\* a seed that inserts nothing
SeedNothing(t, now) == t

\* the row initialize_prompt_if_empty inserts
SeedTable(t, now) == InsertRow(t, 1, DEFAULT_BASE_PROMPT, now)

\* lines 94-102: INSERT when the count read was 0
InitInsert(p, now) ==
    /\ pc[p] = "init_insert"
    /\ IF loc[p].count = 0
       THEN table' = SeedTable(table, now) /\ Log(p, Stmt("seed"))
       ELSE UNCHANGED <<table, trace>>
    /\ loc' = [loc EXCEPT ![p].count = 0]
    /\ Return(p, NoValue)
    /\ UNCHANGED <<schema, op, arg, snap, llm, bvars, nvars>>

-----------------------------------------------------------------------------
(* prompt_store.save_new_prompt                                            *)

\* a check that forgets the strip
IsEmptyText(s) == s = <<>>

\* line 109: not new_prompt or not new_prompt.strip()
IsBlank(s) == s = <<>> \/ Strip(s) = <<>>

CallSaveNewPrompt(p, text) ==
    /\ Begin(p, "save_new_prompt", [ArgInit EXCEPT !.text = text], "save_max")
    /\ loc' = [loc EXCEPT ![p].new_prompt = text]
    /\ UNCHANGED <<schema, table, retv, llm, bvars, nvars>>

\* lines 109-118: the check of the text, then SELECT COALESCE(MAX(version), 0)
SaveMax(p) ==
    /\ pc[p] = "save_max"
    /\ IF IsBlank(loc[p].new_prompt)
       THEN /\ Unhandled(p, "ValueError")
            /\ loc' = [loc EXCEPT ![p] = LocInit]
            /\ UNCHANGED <<schema, trace>>
       ELSE /\ EnsureDb
            /\ Log(p, Stmt("max"))
            /\ loc' = [loc EXCEPT ![p].current_version = MaxVersion(table)]
            /\ pc' = [pc EXCEPT ![p] = "save_insert"]
            /\ UNCHANGED <<stack, retv>>
    /\ UNCHANGED <<table, op, arg, snap, llm, bvars, nvars>>

\* a version that is not incremented
SameVersion(current_version) == current_version

\* a version incremented twice
SkipVersion(current_version) == current_version + 2

\* line 118
NextVersion(current_version) == current_version + 1

\* the text save_new_prompt stores and returns (lines 123, 129)
SavedText(new_prompt) == Strip(new_prompt)

\* a save that reads the maximum version in the statement that inserts
SaveInsertAtomic(p, now) ==
    /\ pc[p] = "save_insert"
    /\ table' = InsertRow(table, NextVersion(MaxVersion(table)),
                          SavedText(loc[p].new_prompt), now)
    /\ Return(p, StrVal(SavedText(loc[p].new_prompt)))
    /\ loc' = [loc EXCEPT ![p].new_prompt = <<>>, ![p].current_version = 0]
    /\ Log(p, Stmt("insert"))
    /\ UNCHANGED <<schema, op, arg, snap, llm, bvars, nvars>>

\* lines 120-129: INSERT, commit, return the stripped text
SaveInsert(p, now) ==
    /\ pc[p] = "save_insert"
    /\ table' = InsertRow(table, NextVersion(loc[p].current_version),
                          SavedText(loc[p].new_prompt), now)
    /\ Return(p, StrVal(SavedText(loc[p].new_prompt)))
    /\ loc' = [loc EXCEPT ![p].new_prompt = <<>>, ![p].current_version = 0]
    /\ Log(p, Stmt("insert"))
    /\ UNCHANGED <<schema, op, arg, snap, llm, bvars, nvars>>

-----------------------------------------------------------------------------
(* prompt_store.list_prompt_versions                                       *)

DefaultLimit == 20
Limits == {0, 1, DefaultLimit}

CallListPromptVersions(p, limit) ==
    /\ Begin(p, "list_prompt_versions", [ArgInit EXCEPT !.limit = limit],
             "list_select")
    /\ UNCHANGED <<schema, table, loc, retv, llm, bvars, nvars>>

\* lines 136-156
ListSelect(p) ==
    /\ pc[p] = "list_select"
    /\ EnsureDb
    /\ \E rows \in ListResults(table, arg[p].limit) : Return(p, RowsVal(rows))
    /\ Log(p, Stmt("list"))
    /\ UNCHANGED <<table, op, arg, loc, snap, llm, bvars, nvars>>

-----------------------------------------------------------------------------
(* The caller takes the result; the process is free for the next call.     *)

Finish(p) ==
    /\ pc[p] = "done"
    /\ pc' = [pc EXCEPT ![p] = "idle"]
    /\ op' = [op EXCEPT ![p] = "none"]
    /\ arg' = [arg EXCEPT ![p] = ArgInit]
    /\ loc' = [loc EXCEPT ![p] = LocInit]
    /\ retv' = [retv EXCEPT ![p] = NoValue]
    /\ snap' = [snap EXCEPT ![p] = <<>>]
    /\ llm' = [llm EXCEPT ![p] = NoOutcome]
    /\ trace' = [trace EXCEPT ![p] = <<>>]
    /\ UNCHANGED <<schema, table, stack, bvars, nvars>>

-----------------------------------------------------------------------------
(* dataset_builder.build_samples                                          *)
(*                                                                         *)
(* A dict is a record over all its possible keys; a key the dict does not  *)
(* hold carries Absent.  Lists that outlive a statement (history and each  *)
(* sample's chat_history) are objects of the heap, named by their index.   *)

Absent == "<absent>"
None == "<None>"

\* dict.get(key, default)
Get(d, key, default) == IF d[key] = Absent THEN default ELSE d[key]

Directions == {"in", "out", Absent}
MsgTexts == {"a", Absent}
Messages == [direction : Directions, text : MsgTexts]

Conversation(contact_id, msgs) ==
    [contact_id |-> contact_id, scenario |-> "dtv", conversation |-> msgs]

\* the contents of conversations.json: one conversation m1, or m1 and m2
ConversationInputs(m1, m2) ==
    {<<Conversation("c1", m1), Conversation("c2", m2)>>}
    \cup IF m2 = <<>> THEN {<<Conversation("c1", m1)>>} ELSE {}

\* line 38: msg.get("direction") of messages[k] (k counts from 0)
DirectionAt(messages, k) == Get(messages[k + 1], "direction", None)

\* a run cut after its first message
RunEndOne(messages, k, d) ==
    IF k < Len(messages) /\ Get(messages[k + 1], "direction", None) = d
    THEN k + 1
    ELSE k

\* lines 42-44 and 47-49: the index after the run of direction d that
\* starts at index k
RECURSIVE RunEnd(_, _, _)
RunEnd(messages, k, d) ==
    IF k < Len(messages) /\ DirectionAt(messages, k) = d
    THEN RunEnd(messages, k + 1, d)
    ELSE k

\* messages[a:b]
Slice(messages, a, b) == SubSeq(messages, a + 1, b)

\* lines 51-52: [m.get("text", "") for m in seq]
TextsOf(seq) == [k \in 1..Len(seq) |-> Get(seq[k], "text", "")]

\* a chat_history that shares the history list
ListAlias(hp, ref) == [heap |-> hp, ref |-> ref]

\* line 60: list(history), a new list with the elements of history
ListCopy(hp, ref) == [heap |-> Append(hp, hp[ref]), ref |-> Len(hp) + 1]

\* lines 55-61
Sample(contact_id, scenario, client_texts, consultant_texts, chat_history) ==
    [contact_id |-> contact_id, scenario |-> scenario,
     client_sequence |-> client_texts, consultant_reply |-> consultant_texts,
     chat_history |-> chat_history]

\* line 30: convo.get("conversation", [])
CurrentMessages == conversations[ci].conversation

\* lines 27-34: the next conversation, with a new empty history
BuildEnterConversation ==
    /\ bpc = "for"
    /\ ci < Len(conversations)
    /\ ci' = ci + 1
    /\ heap' = Append(heap, <<>>)
    /\ history' = Len(heap) + 1
    /\ bi' = 0
    /\ bpc' = "while"
    /\ UNCHANGED <<conversations, samples, svars, nvars>>

\* lines 40-65: a run of "in" messages and the "out" run after it
BuildScanRun ==
    /\ bpc = "while"
    /\ bi < Len(CurrentMessages)
    /\ DirectionAt(CurrentMessages, bi) = "in"
    /\ LET messages == CurrentMessages
           j == RunEnd(messages, bi, "in")
           k == RunEnd(messages, j, "out")
           client_seq == Slice(messages, bi, j)
           consultant_seq == Slice(messages, j, k)
           copy == ListCopy(heap, history)
       IN  /\ samples' = Append(samples,
                  Sample(conversations[ci].contact_id,
                         conversations[ci].scenario,
                         TextsOf(client_seq), TextsOf(consultant_seq),
                         copy.ref))
           /\ heap' = [copy.heap EXCEPT
                  ![history] = copy.heap[history] \o client_seq \o consultant_seq]
           /\ bi' = k
    /\ UNCHANGED <<conversations, bpc, ci, history, svars, nvars>>

\* a scan that steps over a message of another direction and drops it
BuildScanOtherDropped ==
    /\ bpc = "while"
    /\ bi < Len(CurrentMessages)
    /\ DirectionAt(CurrentMessages, bi) # "in"
    /\ bi' = bi + 1
    /\ UNCHANGED <<conversations, bpc, ci, history, samples, heap, svars, nvars>>

\* lines 66-68: any other message goes to the history
BuildScanOther ==
    /\ bpc = "while"
    /\ bi < Len(CurrentMessages)
    /\ DirectionAt(CurrentMessages, bi) # "in"
    /\ heap' = [heap EXCEPT ![history] = Append(heap[history], CurrentMessages[bi + 1])]
    /\ bi' = bi + 1
    /\ UNCHANGED <<conversations, bpc, ci, history, samples, svars, nvars>>

\* line 36: the scan of the conversation is over
BuildEndConversation ==
    /\ bpc = "while"
    /\ bi >= Len(CurrentMessages)
    /\ bpc' = "for"
    /\ UNCHANGED <<conversations, ci, bi, history, samples, heap, svars, nvars>>

\* line 70
BuildReturn ==
    /\ bpc = "for"
    /\ ci = Len(conversations)
    /\ bpc' = "done"
    /\ UNCHANGED <<conversations, ci, bi, history, samples, heap, svars, nvars>>

-----------------------------------------------------------------------------
(* app._normalize_chat_history                                             *)

Roles == {"client", "consultant", "bot", Absent}
EntryMessages == {"a", "b", Absent}
Entries == [role : Roles, message : EntryMessages]

\* every raw chat history of at most n entries
RawHistories(n) == UNION {[1..k -> Entries] : k \in 0..n}

\* a filter that keeps client entries only
KeptRoleClientOnly(role) == role = "client"

\* line 33: role in ("client", "consultant")
KeptRole(role) == role \in {"client", "consultant"}

\* an entry reshaped with its role in the place of its message
ReshapedSwapped(msg) ==
    [role |-> Get(msg, "role", None), message |-> Get(msg, "role", None)]

\* lines 31, 32 and 35: {"role": role, "message": text}
Reshaped(msg) ==
    [role |-> Get(msg, "role", None), message |-> Get(msg, "message", "")]

\* lines 30-35: one entry of the loop
NormalizeEntry(acc, msg) ==
    IF KeptRole(Get(msg, "role", None)) THEN Append(acc, Reshaped(msg)) ELSE acc

\* lines 28-37 as a function of the raw history
RECURSIVE NormalizeFrom(_, _, _)
NormalizeFrom(raw, k, acc) ==
    IF k >= Len(raw) THEN acc
    ELSE NormalizeFrom(raw, k + 1, NormalizeEntry(acc, raw[k + 1]))

NormalizeChatHistory(raw) == NormalizeFrom(raw, 0, <<>>)

\* lines 30-35
NormStep ==
    /\ npc = "for"
    /\ nk < Len(raw_history)
    /\ normalized' = NormalizeEntry(normalized, raw_history[nk + 1])
    /\ nk' = nk + 1
    /\ UNCHANGED <<raw_history, npc, svars, bvars>>

\* lines 36-37
NormReturn ==
    /\ npc = "for"
    /\ nk = Len(raw_history)
    /\ npc' = "done"
    /\ UNCHANGED <<raw_history, normalized, nk, svars, bvars>>

-----------------------------------------------------------------------------
(* ai_client.generate_chat_reply                                           *)

\* What one round trip to the completion service can bring: no API key in
\* the environment, an error of the call, or a completion whose message
\* content is missing, empty, no JSON text, or the JSON text of a value.
NoKey == [kind |-> "no_key"]
ApiError == [kind |-> "api_error"]
Completion(content) == [kind |-> "completion", content |-> content]
ContentNone == [text |-> "none"]
ContentEmpty == [text |-> "empty"]
ContentInvalid == [text |-> "invalid"]
ContentJson(v) == [text |-> "json", value |-> v]

\* a JSON object with the fields the program reads
JObject(reply, prompt) == [type |-> "object", reply |-> reply, prompt |-> prompt]

\* the JSON values a content may encode: a value that is no object, and
\* objects without the field, with a number in it, with a string in it
JsonValues(field, texts) ==
    {JList(<<>>)}
    \cup {[JObject(JAbsent, JAbsent) EXCEPT ![field] = v] :
             v \in {JAbsent, JNumber} \cup {JStr(t) : t \in texts}}

Outcomes(field, texts) ==
    {NoKey, ApiError, Completion(ContentNone), Completion(ContentEmpty),
     Completion(ContentInvalid)}
    \cup {Completion(ContentJson(v)) : v \in JsonValues(field, texts)}

AIClientError(msg) == [kind |-> "raise", exc |-> "AIClientError", msg |-> msg]

\* lines 58, 133: completion.choices[0].message.content or "{}"
MessageContent(content) ==
    IF content = ContentNone \/ content = ContentEmpty
    THEN ContentJson(JObject(JAbsent, JAbsent))
    ELSE content

\* ai_client.py lines 37-71 and 105-146: what the call gives its caller
\* for an outcome of the round trip: the string of `field`, an
\* AIClientError, or the AttributeError of parsed.get when json.loads gave
\* a value that is no dict
FieldResult(outcome, field) ==
    IF outcome = NoKey THEN AIClientError("OPENAI_API_KEY is not set")
    ELSE IF outcome = ApiError THEN AIClientError("Error calling OpenAI")
    ELSE LET content == MessageContent(outcome.content)
         IN  IF content = ContentInvalid
             THEN AIClientError("Model did not return valid JSON")
             ELSE LET parsed == content.value
                  IN  IF parsed.type # "object"
                      THEN Raised("AttributeError")
                      ELSE IF ~IsStr(parsed[field])
                      THEN AIClientError("Model JSON missing field or not a string")
                      ELSE StrVal(parsed[field].s)

\* the reply texts a completion may carry
ReplyTexts == {<<>>, <<"h">>}

\* an AIClientError goes to the caller, which catches it; any other
\* exception is caught by no frame
Deliver(p, r) ==
    IF r.kind = "raise" /\ r.exc # "AIClientError"
    THEN Unhandled(p, r.exc)
    ELSE Return(p, r)

\* lines 34-71: get_latest_prompt has returned the system prompt; the
\* round trip and the reading of its content
GcrComplete(p, outcome) ==
    /\ pc[p] = "gcr_complete"
    /\ Deliver(p, FieldResult(outcome, "reply"))
    /\ llm' = [llm EXCEPT ![p] = outcome]
    /\ loc' = [loc EXCEPT ![p].base_prompt = retv[p].s]
    /\ Log(p, AiCall("generate", FieldResult(outcome, "reply"), retv[p].s))
    /\ UNCHANGED <<schema, table, op, arg, snap, bvars, nvars>>

-----------------------------------------------------------------------------
(* app.generate_reply_endpoint                                             *)

\* lines 49, 82, 87, 135: not isinstance(v, str) or not v.strip()
NotNonEmptyString(v) == ~IsStr(v) \/ Strip(v.s) = <<>>

\* lines 47, 79: data.get("chatHistory", [])
ChatHistoryOf(data) ==
    IF data.chatHistory = JAbsent THEN JList(<<>>) ELSE data.chatHistory

\* jsonify({"error": msg})
ErrorBody(msg) == [error |-> msg]

\* a handler returns a response
Respond(p, status, body) == Return(p, Http(status, body))

\* the request bodies posted to /generate-reply
GenerateInputs ==
    {JList(<<JNumber>>)} \cup
    {Data(cs, ch, JAbsent, JAbsent) :
        cs \in {JAbsent, JNumber, JStr(<<" ">>), JStr(<<"a">>)},
        ch \in {JAbsent, JNull, JList(<<>>),
                JList(<<[role |-> "client", message |-> "a"],
                        [role |-> "bot", message |-> "b"]>>)}}

PostGenerateReply(p, data) ==
    /\ Begin(p, "generate_reply_endpoint", [ArgInit EXCEPT !.data = data],
             "gen_validate")
    /\ UNCHANGED <<schema, table, loc, retv, llm, bvars, nvars>>

\* lines 45-64: the validation, then the call of generate_chat_reply, which
\* starts with get_latest_prompt (ai_client.py line 34)
GenValidate(p) ==
    /\ pc[p] = "gen_validate"
    /\ LET data == arg[p].data
       IN  IF data.type # "object"
           THEN Unhandled(p, "AttributeError") /\ UNCHANGED loc
           ELSE IF NotNonEmptyString(data.clientSequence)
           THEN /\ Respond(p, 400,
                       ErrorBody("clientSequence must be a non-empty string"))
                /\ UNCHANGED loc
           ELSE IF ~IsList(ChatHistoryOf(data))
           THEN /\ Respond(p, 400, ErrorBody("chatHistory must be a list"))
                /\ UNCHANGED loc
           ELSE /\ pc' = [pc EXCEPT ![p] = "glp_select"]
                /\ stack' = [stack EXCEPT ![p] =
                       <<"gcr_complete", "gen_reply">> \o stack[p]]
                /\ loc' = [loc EXCEPT ![p].normalized_history =
                       NormalizeChatHistory(ChatHistoryOf(data).items)]
                /\ UNCHANGED retv
    /\ UNCHANGED <<schema, table, op, arg, snap, llm, trace, bvars, nvars>>

\* lines 63-68
GenReply(p) ==
    /\ pc[p] = "gen_reply"
    /\ IF retv[p].kind = "raise"
       THEN Respond(p, 500, ErrorBody(retv[p].msg))
       ELSE Respond(p, 200, [aiReply |-> retv[p].s])
    /\ UNCHANGED <<schema, table, op, arg, loc, snap, llm, trace, bvars, nvars>>

-----------------------------------------------------------------------------
(* ai_client.improve_prompt_with_editor                                    *)

\* the prompt texts the editor's completion may carry
EditorTexts == TextsUpTo(MaxLen)

\* lines 105-146: the round trip and the reading of its content
EditorComplete(p, outcome) ==
    /\ pc[p] = "editor_complete"
    /\ Deliver(p, FieldResult(outcome, "prompt"))
    /\ llm' = [llm EXCEPT ![p] = outcome]
    /\ Log(p, AiCall("editor", FieldResult(outcome, "prompt"),
                      loc[p].existing_prompt))
    /\ UNCHANGED <<schema, table, op, arg, loc, snap, bvars, nvars>>

-----------------------------------------------------------------------------
(* app.improve_ai_endpoint                                                 *)

\* the request bodies posted to /improve-ai
ImproveInputs ==
    {JList(<<JNumber>>)} \cup
    {Data(cs, ch, cr, JAbsent) :
        cs \in {JAbsent, JStr(<<"a">>)},
        ch \in {JAbsent, JNull,
                JList(<<[role |-> "client", message |-> "a"]>>)},
        cr \in {JAbsent, JStr(<<" ">>), JStr(<<"r">>)}}

PostImproveAi(p, data) ==
    /\ Begin(p, "improve_ai_endpoint", [ArgInit EXCEPT !.data = data],
             "imp_validate")
    /\ UNCHANGED <<schema, table, loc, retv, llm, bvars, nvars>>

\* lines 76-100: the validation, then the call of generate_chat_reply
ImpValidate(p) ==
    /\ pc[p] = "imp_validate"
    /\ LET data == arg[p].data
       IN  IF data.type # "object"
           THEN Unhandled(p, "AttributeError") /\ UNCHANGED loc
           ELSE IF NotNonEmptyString(data.clientSequence)
           THEN /\ Respond(p, 400,
                       ErrorBody("clientSequence must be a non-empty string"))
                /\ UNCHANGED loc
           ELSE IF NotNonEmptyString(data.consultantReply)
           THEN /\ Respond(p, 400,
                       ErrorBody("consultantReply must be a non-empty string"))
                /\ UNCHANGED loc
           ELSE IF ~IsList(ChatHistoryOf(data))
           THEN /\ Respond(p, 400, ErrorBody("chatHistory must be a list"))
                /\ UNCHANGED loc
           ELSE /\ pc' = [pc EXCEPT ![p] = "glp_select"]
                /\ stack' = [stack EXCEPT ![p] =
                       <<"gcr_complete", "imp_predicted">> \o stack[p]]
                /\ loc' = [loc EXCEPT ![p].normalized_history =
                       NormalizeChatHistory(ChatHistoryOf(data).items)]
                /\ UNCHANGED retv
    /\ UNCHANGED <<schema, table, op, arg, snap, llm, trace, bvars, nvars>>

\* a handler that goes on to the editor after a failed generate call
ImpPredictedGoesOn(p) ==
    /\ pc[p] = "imp_predicted"
    /\ loc' = [loc EXCEPT ![p].predicted_reply =
          IF retv[p].kind = "raise" THEN <<>> ELSE retv[p].s]
    /\ Call(p, "glp_select", "imp_existing")
    /\ UNCHANGED <<schema, table, op, arg, retv, snap, llm, trace, bvars, nvars>>

\* lines 97-104: the predicted reply or the 500, then get_latest_prompt
ImpPredicted(p) ==
    /\ pc[p] = "imp_predicted"
    /\ IF retv[p].kind = "raise"
       THEN /\ Respond(p, 500, ErrorBody(retv[p].msg))
            /\ UNCHANGED loc
       ELSE /\ loc' = [loc EXCEPT ![p].predicted_reply = retv[p].s]
            /\ Call(p, "glp_select", "imp_existing")
            /\ UNCHANGED retv
    /\ UNCHANGED <<schema, table, op, arg, snap, llm, trace, bvars, nvars>>

\* a handler that gives the editor the prompt read for the generate call
ImpExistingCached(p) ==
    /\ pc[p] = "imp_existing"
    /\ loc' = [loc EXCEPT ![p].existing_prompt = loc[p].base_prompt]
    /\ Call(p, "editor_complete", "imp_updated")
    /\ UNCHANGED <<schema, table, op, arg, retv, snap, llm, trace, bvars, nvars>>

\* lines 104-113: existing_prompt, then the call of improve_prompt_with_editor
ImpExisting(p) ==
    /\ pc[p] = "imp_existing"
    /\ loc' = [loc EXCEPT ![p].existing_prompt = retv[p].s]
    /\ Call(p, "editor_complete", "imp_updated")
    /\ UNCHANGED <<schema, table, op, arg, retv, snap, llm, trace, bvars, nvars>>

\* lines 106-117: the updated prompt or the 500, then save_new_prompt
ImpUpdated(p) ==
    /\ pc[p] = "imp_updated"
    /\ IF retv[p].kind = "raise"
       THEN /\ Respond(p, 500, ErrorBody(retv[p].msg))
            /\ UNCHANGED loc
       ELSE /\ loc' = [loc EXCEPT ![p].updated_prompt = retv[p].s,
                                  ![p].new_prompt = retv[p].s]
            /\ Call(p, "save_max", "imp_saved")
            /\ UNCHANGED retv
    /\ UNCHANGED <<schema, table, op, arg, snap, llm, trace, bvars, nvars>>

\* lines 119-124: the body of the 200; the value save_new_prompt returned
\* is dropped at line 117
ImproveBody(predicted_reply, updated_prompt) ==
    [predictedReply |-> predicted_reply, updatedPrompt |-> updated_prompt]

\* lines 117-124
ImpSaved(p) ==
    /\ pc[p] = "imp_saved"
    /\ Respond(p, 200, ImproveBody(loc[p].predicted_reply,
                                   loc[p].updated_prompt))
    /\ UNCHANGED <<schema, table, op, arg, loc, snap, llm, trace, bvars, nvars>>

-----------------------------------------------------------------------------
(* app.improve_ai_manually_endpoint                                        *)

\* line 144: "\n\n# Additional manual instructions\n"
ManualSeparator == <<"\n", "\n", "# Additional manual instructions", "\n">>

\* the request bodies posted to /improve-ai-manually
ManualInputs ==
    {JList(<<JNumber>>)} \cup
    {Data(JAbsent, JAbsent, JAbsent, ins) :
        ins \in {JAbsent, JNumber, JStr(<<" ">>), JStr(<<" ", "i">>)}}

PostImproveAiManually(p, data) ==
    /\ Begin(p, "improve_ai_manually_endpoint", [ArgInit EXCEPT !.data = data],
             "man_validate")
    /\ UNCHANGED <<schema, table, loc, retv, llm, bvars, nvars>>

\* lines 132-141: the validation, then get_latest_prompt
ManValidate(p) ==
    /\ pc[p] = "man_validate"
    /\ LET data == arg[p].data
       IN  IF data.type # "object"
           THEN Unhandled(p, "AttributeError")
           ELSE IF NotNonEmptyString(data.instructions)
           THEN Respond(p, 400,
                    ErrorBody("instructions must be a non-empty string"))
           ELSE Call(p, "glp_select", "man_update") /\ UNCHANGED retv
    /\ UNCHANGED <<schema, table, op, arg, loc, snap, llm, trace, bvars, nvars>>

\* a manual update that keeps the whitespace around the instructions
ManualUpdateUntrimmed(current_prompt, instructions) ==
    Strip(current_prompt) \o ManualSeparator \o instructions

\* lines 142-146
ManualUpdate(current_prompt, instructions) ==
    Strip(current_prompt) \o ManualSeparator \o Strip(instructions)

\* lines 141-147: manual_update, then save_new_prompt
ManUpdate(p) ==
    /\ pc[p] = "man_update"
    /\ loc' = [loc EXCEPT ![p].new_prompt =
          ManualUpdate(retv[p].s, arg[p].data.instructions.s)]
    /\ Call(p, "save_max", "man_saved")
    /\ UNCHANGED <<schema, table, op, arg, retv, snap, llm, trace, bvars, nvars>>

\* lines 147-149
ManSaved(p) ==
    /\ pc[p] = "man_saved"
    /\ Respond(p, 200, [updatedPrompt |-> retv[p].s])
    /\ UNCHANGED <<schema, table, op, arg, loc, snap, llm, trace, bvars, nvars>>

-----------------------------------------------------------------------------
(* app.run_self_learning_pipeline                                          *)

\* dataset_builder.py lines 36-68 as a function: the samples of one
\* conversation, each with its chat_history as a list of its own
RECURSIVE ScanFrom(_, _, _, _)
ScanFrom(convo, k, hist, acc) ==
    LET messages == convo.conversation
    IN  IF k >= Len(messages) THEN acc
        ELSE IF DirectionAt(messages, k) = "in"
        THEN LET j == RunEnd(messages, k, "in")
                 e == RunEnd(messages, j, "out")
                 client_seq == Slice(messages, k, j)
                 consultant_seq == Slice(messages, j, e)
             IN  ScanFrom(convo, e, hist \o client_seq \o consultant_seq,
                     Append(acc, Sample(convo.contact_id, convo.scenario,
                         TextsOf(client_seq), TextsOf(consultant_seq), hist)))
        ELSE ScanFrom(convo, k + 1, Append(hist, messages[k + 1]), acc)

\* dataset_builder.py lines 24-70 as a function
RECURSIVE BuildFrom(_, _, _)
BuildFrom(convs, c, acc) ==
    IF c >= Len(convs) THEN acc
    ELSE BuildFrom(convs, c + 1, ScanFrom(convs[c + 1], 0, <<>>, acc))

BuildSamples(convs) == BuildFrom(convs, 0, <<>>)

\* line 151: limit=None
NoLimit == -1
\* line 151: limit: int | None = 20
DefaultPipelineLimit == 20

\* lines 166-167: samples[:limit] unless limit is None
Truncated(smps, limit) ==
    IF limit = NoLimit \/ limit >= Len(smps) THEN smps
    ELSE SubSeq(smps, 1, limit)

\* the contents of conversations.json in the runs of the pipeline
PipelineConversations ==
    {<<>>,
     <<Conversation("c1", <<[direction |-> "in", text |-> "a"]>>)>>,
     <<Conversation("c1", <<[direction |-> "in", text |-> "a"],
                            [direction |-> "out", text |-> "b"]>>),
       Conversation("c2", <<[direction |-> "out", text |-> "a"],
                            [direction |-> "in", text |-> Absent]>>)>>}
PipelineLimits == {NoLimit, 1, DefaultPipelineLimit}

RunSelfLearningPipeline(p, convs, limit) ==
    /\ Begin(p, "run_self_learning_pipeline",
             [ArgInit EXCEPT !.conversations = convs, !.limit = limit],
             "pipe_start")
    /\ UNCHANGED <<schema, table, loc, retv, llm, bvars, nvars>>

\* lines 161-169: the samples, then get_latest_prompt
PipeStart(p) ==
    /\ pc[p] = "pipe_start"
    /\ loc' = [loc EXCEPT ![p].samples =
          Truncated(BuildSamples(arg[p].conversations), arg[p].limit)]
    /\ Call(p, "glp_select", "pipe_prompt")
    /\ UNCHANGED <<schema, table, op, arg, retv, snap, llm, trace, bvars, nvars>>

\* line 169: prompt = get_latest_prompt()
PipePrompt(p) ==
    /\ pc[p] = "pipe_prompt"
    /\ loc' = [loc EXCEPT ![p].prompt = retv[p].s, ![p].idx = 0]
    /\ pc' = [pc EXCEPT ![p] = "pipe_loop"]
    /\ UNCHANGED <<schema, table, stack, op, arg, retv, snap, llm, trace, bvars, nvars>>

\* lines 170-184: the next sample and the call of generate_chat_reply, or
\* the end of the run
PipeLoop(p) ==
    /\ pc[p] = "pipe_loop"
    /\ IF loc[p].idx < Len(loc[p].samples)
       THEN /\ loc' = [loc EXCEPT ![p].idx = loc[p].idx + 1]
            /\ pc' = [pc EXCEPT ![p] = "glp_select"]
            /\ stack' = [stack EXCEPT ![p] =
                   <<"gcr_complete", "pipe_predicted">> \o stack[p]]
            /\ UNCHANGED retv
       ELSE /\ Return(p, NoValue)
            /\ UNCHANGED loc
    /\ UNCHANGED <<schema, table, op, arg, snap, llm, trace, bvars, nvars>>

\* lines 179-191 and 194-195: the sample is skipped on an AIClientError,
\* otherwise improve_prompt_with_editor is called
PipePredicted(p) ==
    /\ pc[p] = "pipe_predicted"
    /\ IF retv[p].kind = "raise"
       THEN /\ pc' = [pc EXCEPT ![p] = "pipe_loop"]
            /\ UNCHANGED <<stack, loc>>
       ELSE /\ loc' = [loc EXCEPT ![p].predicted = retv[p].s,
                                  ![p].existing_prompt = loc[p].prompt]
            /\ Call(p, "editor_complete", "pipe_edited")
    /\ UNCHANGED <<schema, table, op, arg, retv, snap, llm, trace, bvars, nvars>>

\* lines 185-192 and 194-195: the sample is skipped on an AIClientError,
\* otherwise the new prompt becomes the running prompt and is saved
PipeEdited(p) ==
    /\ pc[p] = "pipe_edited"
    /\ IF retv[p].kind = "raise"
       THEN /\ pc' = [pc EXCEPT ![p] = "pipe_loop"]
            /\ UNCHANGED <<stack, loc>>
       ELSE /\ loc' = [loc EXCEPT ![p].prompt = retv[p].s,
                                  ![p].new_prompt = retv[p].s]
            /\ Call(p, "save_max", "pipe_saved")
    /\ UNCHANGED <<schema, table, op, arg, retv, snap, llm, trace, bvars, nvars>>

\* lines 192-193
PipeSaved(p) ==
    /\ pc[p] = "pipe_saved"
    /\ pc' = [pc EXCEPT ![p] = "pipe_loop"]
    /\ UNCHANGED <<schema, table, stack, op, arg, loc, retv, snap, llm, trace, bvars, nvars>>

-----------------------------------------------------------------------------
(* Specifications.                                                         *)

\* _normalize_chat_history is not running
NormalizerOff ==
    /\ raw_history = <<>>
    /\ normalized = <<>>
    /\ nk = 0
    /\ npc = "off"

\* no call into the prompt store, the AI client or the HTTP service yet
StoreInit ==
    /\ schema = FALSE
    /\ table = <<>>
    /\ pc = [p \in Procs |-> "idle"]
    /\ stack = [p \in Procs |-> <<>>]
    /\ op = [p \in Procs |-> "none"]
    /\ arg = [p \in Procs |-> ArgInit]
    /\ loc = [p \in Procs |-> LocInit]
    /\ retv = [p \in Procs |-> NoValue]
    /\ snap = [p \in Procs |-> <<>>]
    /\ llm = [p \in Procs |-> NoOutcome]
    /\ trace = [p \in Procs |-> <<>>]

\* build_samples is not running
BuilderOff ==
    /\ conversations = <<>>
    /\ bpc = "off"
    /\ ci = 0
    /\ bi = 0
    /\ history = 0
    /\ samples = <<>>
    /\ heap = <<>>

Init == StoreInit /\ BuilderOff /\ NormalizerOff

\* no other process is inside a call
Alone(p) == \A q \in Procs \ {p} : Idle(q)

\* the table has room for one more row within the bound n
Room(n) == Len(table) < n

\* initialize_prompt_if_empty does not insert, or the table has room
SeedRoom(p, n) == loc[p].count # 0 \/ Room(n)

\* the prompt store under overlapping calls
StoreNext ==
    \E p \in Procs :
        \/ CallGetLatestPrompt(p)
        \/ CallInitializePromptIfEmpty(p)
        \/ \E text \in ConcTexts : CallSaveNewPrompt(p, text)
        \/ \E limit \in Limits : CallListPromptVersions(p, limit)
        \/ GlpSelect(p)
        \/ GlpReselect(p)
        \/ InitCount(p)
        \/ SeedRoom(p, MaxConcRows) /\ \E now \in Times : InitInsert(p, now)
        \/ SaveMax(p)
        \/ Room(MaxConcRows) /\ \E now \in Times : SaveInsert(p, now)
        \/ ListSelect(p)
        \/ Finish(p)

StoreSpec == Init /\ [][StoreNext]_vars

\* the same, where a step that can be taken is eventually taken
StoreFairSpec == StoreSpec /\ WF_vars(StoreNext)

\* the prompt store when no two calls overlap
SeqStoreNext ==
    \E p \in Procs :
        \/ Alone(p) /\ CallGetLatestPrompt(p)
        \/ Alone(p) /\ CallInitializePromptIfEmpty(p)
        \/ Alone(p) /\ \E text \in TextsUpTo(MaxLen) : CallSaveNewPrompt(p, text)
        \/ Alone(p) /\ \E limit \in Limits : CallListPromptVersions(p, limit)
        \/ GlpSelect(p)
        \/ GlpReselect(p)
        \/ InitCount(p)
        \/ SeedRoom(p, MaxRows) /\ \E now \in Times : InitInsert(p, now)
        \/ SaveMax(p)
        \/ Room(MaxRows) /\ \E now \in Times : SaveInsert(p, now)
        \/ ListSelect(p)
        \/ Finish(p)

SeqStoreSpec == Init /\ [][SeqStoreNext]_vars

\* the HTTP service, one request at a time
HttpNext ==
    \E p \in Procs :
        \/ Alone(p) /\ \E data \in GenerateInputs : PostGenerateReply(p, data)
        \/ Alone(p) /\ \E data \in ImproveInputs : PostImproveAi(p, data)
        \/ Alone(p) /\ \E data \in ManualInputs : PostImproveAiManually(p, data)
        \/ GenValidate(p)
        \/ GenReply(p)
        \/ ImpValidate(p)
        \/ ImpPredicted(p)
        \/ ImpExisting(p)
        \/ ImpUpdated(p)
        \/ ImpSaved(p)
        \/ ManValidate(p)
        \/ ManUpdate(p)
        \/ ManSaved(p)
        \/ \E outcome \in Outcomes("reply", ReplyTexts) : GcrComplete(p, outcome)
        \/ \E outcome \in Outcomes("prompt", EditorTexts) :
              EditorComplete(p, outcome)
        \/ GlpSelect(p)
        \/ GlpReselect(p)
        \/ InitCount(p)
        \/ SeedRoom(p, MaxRows) /\ \E now \in Times : InitInsert(p, now)
        \/ SaveMax(p)
        \/ Room(MaxRows) /\ \E now \in Times : SaveInsert(p, now)
        \/ Finish(p)

HttpSpec == Init /\ [][HttpNext]_vars

\* the offline pipeline, one run at a time and no other writer
PipeNext ==
    \E p \in Procs :
        \/ Alone(p) /\ \E convs \in PipelineConversations, limit \in PipelineLimits :
                          RunSelfLearningPipeline(p, convs, limit)
        \/ PipeStart(p)
        \/ PipePrompt(p)
        \/ PipeLoop(p)
        \/ PipePredicted(p)
        \/ PipeEdited(p)
        \/ PipeSaved(p)
        \/ \E outcome \in Outcomes("reply", ReplyTexts) : GcrComplete(p, outcome)
        \/ \E outcome \in Outcomes("prompt", EditorTexts) :
              EditorComplete(p, outcome)
        \/ GlpSelect(p)
        \/ GlpReselect(p)
        \/ InitCount(p)
        \/ SeedRoom(p, MaxRows) /\ \E now \in Times : InitInsert(p, now)
        \/ SaveMax(p)
        \/ Room(MaxRows) /\ \E now \in Times : SaveInsert(p, now)
        \/ Finish(p)

PipeSpec == Init /\ [][PipeNext]_vars

\* the inputs of the runs in which every operation may overlap every other
SysText == <<"a", " ">>
SysTime == "2024-01-01T00:00:00"
SysGenerate == Data(JStr(<<"a">>), JAbsent, JAbsent, JAbsent)
SysImprove == Data(JStr(<<"a">>), JAbsent, JStr(<<"r">>), JAbsent)
SysManual == Data(JAbsent, JAbsent, JAbsent, JStr(<<"i">>))
SysConversations ==
    <<Conversation("c1", <<[direction |-> "in", text |-> "a"]>>)>>
SysOutcomes(field) ==
    {ApiError,
     Completion(ContentJson([JObject(JAbsent, JAbsent) EXCEPT
                                 ![field] = JStr(SysText)]))}

\* the edits the editor model hands to overlapping /improve-ai requests
OverlapEdits == {<<"x">>, <<"y">>}
OverlapOutcomes ==
    {ApiError} \cup
    {Completion(ContentJson([JObject(JAbsent, JAbsent) EXCEPT
                                 !["prompt"] = JStr(t)])) : t \in OverlapEdits}

\* /improve-ai requests that overlap each other
ImproveNext ==
    \E p \in Procs :
        \/ PostImproveAi(p, SysImprove)
        \/ ImpValidate(p)
        \/ ImpPredicted(p)
        \/ ImpExisting(p)
        \/ ImpUpdated(p)
        \/ ImpSaved(p)
        \/ \E outcome \in SysOutcomes("reply") : GcrComplete(p, outcome)
        \/ \E outcome \in OverlapOutcomes : EditorComplete(p, outcome)
        \/ GlpSelect(p)
        \/ GlpReselect(p)
        \/ InitCount(p)
        \/ SeedRoom(p, MaxRows) /\ InitInsert(p, SysTime)
        \/ SaveMax(p)
        \/ Room(MaxRows) /\ SaveInsert(p, SysTime)
        \/ Finish(p)

ImproveSpec == Init /\ [][ImproveNext]_vars

\* the prompt store, the HTTP service and the pipeline under overlapping
\* calls
SysNext ==
    \E p \in Procs :
        \/ CallGetLatestPrompt(p)
        \/ CallInitializePromptIfEmpty(p)
        \/ CallSaveNewPrompt(p, SysText)
        \/ CallListPromptVersions(p, DefaultLimit)
        \/ PostGenerateReply(p, SysGenerate)
        \/ PostImproveAi(p, SysImprove)
        \/ PostImproveAiManually(p, SysManual)
        \/ RunSelfLearningPipeline(p, SysConversations, NoLimit)
        \/ GenValidate(p)
        \/ GenReply(p)
        \/ ImpValidate(p)
        \/ ImpPredicted(p)
        \/ ImpExisting(p)
        \/ ImpUpdated(p)
        \/ ImpSaved(p)
        \/ ManValidate(p)
        \/ ManUpdate(p)
        \/ ManSaved(p)
        \/ PipeStart(p)
        \/ PipePrompt(p)
        \/ PipeLoop(p)
        \/ PipePredicted(p)
        \/ PipeEdited(p)
        \/ PipeSaved(p)
        \/ \E outcome \in SysOutcomes("reply") : GcrComplete(p, outcome)
        \/ \E outcome \in SysOutcomes("prompt") : EditorComplete(p, outcome)
        \/ GlpSelect(p)
        \/ GlpReselect(p)
        \/ InitCount(p)
        \/ SeedRoom(p, MaxConcRows) /\ InitInsert(p, SysTime)
        \/ SaveMax(p)
        \/ Room(MaxConcRows) /\ SaveInsert(p, SysTime)
        \/ ListSelect(p)
        \/ Finish(p)

SysSpec == Init /\ [][SysNext]_vars

\* build_samples on every conversations.json within the bounds
BuildInit ==
    /\ \E n1 \in 0..MaxMsgs : \E n2 \in 0..(MaxMsgs - n1) :
         \E m1 \in [1..n1 -> Messages], m2 \in [1..n2 -> Messages] :
             conversations \in ConversationInputs(m1, m2)
    /\ bpc = "for"
    /\ ci = 0
    /\ bi = 0
    /\ history = 0
    /\ samples = <<>>
    /\ heap = <<>>
    /\ StoreInit
    /\ NormalizerOff

BuildNext ==
    \/ BuildEnterConversation
    \/ BuildScanRun
    \/ BuildScanOther
    \/ BuildEndConversation
    \/ BuildReturn

BuildSpec == BuildInit /\ [][BuildNext]_vars

\* build_samples is one thread of control: it takes its next step as long
\* as it has one
BuildFairSpec == BuildSpec /\ WF_vars(BuildNext)

\* _normalize_chat_history on every raw history within the bounds
NormInit ==
    /\ raw_history \in RawHistories(MaxHist)
    /\ normalized = <<>>
    /\ nk = 0
    /\ npc = "for"
    /\ StoreInit
    /\ BuilderOff

NormNext == NormStep \/ NormReturn

NormSpec == NormInit /\ [][NormNext]_vars

-----------------------------------------------------------------------------
(* Properties of the prompt store.                                         *)

\* p has just returned from a call of `name`
Done(p, name) == pc[p] = "done" /\ op[p] = name

\* the request answered with a 200
Ok(p, name) ==
    Done(p, name) /\ retv[p].kind = "http" /\ retv[p].status = 200

\* s consists of whitespace only (the empty text included)
AllWhitespace(s) == \A i \in 1..Len(s) : s[i] \in Whitespace

\* t is s without its leading and trailing whitespace
IsTrimOf(t, s) ==
    /\ t # <<>> => t[1] \notin Whitespace /\ t[Len(t)] \notin Whitespace
    /\ \E i, j \in 0..Len(s) :
         /\ i + Len(t) + j = Len(s)
         /\ \A k \in 1..Len(t) : s[i + k] = t[k]
         /\ \A k \in 1..i : s[k] \in Whitespace
         /\ \A k \in 1..j : s[Len(s) - j + k] \in Whitespace

\* t extends u by exactly one row
OneRowAdded(u, t) == Len(t) = Len(u) + 1 /\ SubSeq(t, 1, Len(u)) = u

\* C1 as stated: once any Prompt Store operation (get latest prompt, seed
\* if empty, save new prompt or list prompt versions) has completed, the
\* prompts table holds at least one row, and it does so ever after.
C1_AnyOperationSeeds ==
    [][/\ \A p \in Procs : pc'[p] = "done" => table' # <<>>
       /\ table # <<>> => table' # <<>>]_vars

\* the operations that leave a row behind: get latest prompt, seed if
\* empty, and a save new prompt that did not fail
LeavesRow(p) ==
    \/ Done(p, "get_latest_prompt")
    \/ Done(p, "initialize_prompt_if_empty")
    \/ Done(p, "save_new_prompt") /\ retv[p].kind # "raise"

\* C1 amended: once get latest prompt, seed if empty or a successful save
\* new prompt has completed, the prompts table holds at least one row, and
\* a table that holds a row holds one in every later state.  (list prompt
\* versions and a rejected save new prompt leave an empty table empty.)
C1_SeedingOperations ==
    [][/\ \A p \in Procs : LeavesRow(p)' => table' # <<>>
       /\ table # <<>> => table' # <<>>]_vars

\* get latest prompt has returned from a call that found the table empty
C1_Witness ==
    \E p \in Procs :
        Done(p, "get_latest_prompt") /\ snap[p] = <<>> /\ table # <<>>

\* C2: get latest prompt, not overlapped: on an empty table it inserts
\* exactly one row (version 1, the default text) and returns the default
\* text; on a non-empty table it inserts nothing, changes no row and
\* returns the prompt_text of the row of the greatest version.
C2_GetLatest ==
    \A p \in Procs :
        Done(p, "get_latest_prompt") =>
            IF snap[p] = <<>>
            THEN /\ Len(table) = 1
                 /\ table[1].version = 1
                 /\ table[1].prompt_text = DEFAULT_BASE_PROMPT
                 /\ retv[p] = StrVal(DEFAULT_BASE_PROMPT)
            ELSE /\ table = snap[p]
                 /\ retv[p].kind = "str"
                 /\ \E i \in 1..Len(table) :
                      /\ \A j \in 1..Len(table) :
                           j # i => table[j].version < table[i].version
                      /\ retv[p].s = table[i].prompt_text

\* get latest prompt has returned on a table of several rows whose texts
\* differ, and (in another state) on an empty one
C2_Witness ==
    \E p \in Procs :
        /\ Done(p, "get_latest_prompt")
        /\ Len(snap[p]) >= 2
        /\ snap[p][1].prompt_text # snap[p][Len(snap[p])].prompt_text

\* C3: without overlap, a successful save new prompt(text) inserts exactly
\* one row, of version (previous maximum + 1, or 1 on an empty table) and
\* of the trimmed text, and returns the trimmed text; and the versions in
\* the table are always exactly 1..n, n the number of rows.
C3_SaveVersions ==
    /\ \A p \in Procs :
         Done(p, "save_new_prompt") /\ retv[p].kind # "raise" =>
            /\ OneRowAdded(snap[p], table)
            /\ \A v \in Versions(snap[p]) : v < table[Len(table)].version
            /\ table[Len(table)].version = Len(snap[p]) + 1
            /\ IsTrimOf(table[Len(table)].prompt_text, arg[p].text)
            /\ retv[p] = StrVal(table[Len(table)].prompt_text)
    /\ Versions(table) = 1..Len(table)

\* a save of a text with whitespace at both ends has added a third row
C3_Witness ==
    \E p \in Procs :
        /\ Done(p, "save_new_prompt")
        /\ retv[p].kind = "str"
        /\ Len(table) = 3
        /\ Len(retv[p].s) < Len(arg[p].text)

\* C4: save new prompt of an empty or all-whitespace text fails with
\* InvalidInput (ValueError) and leaves the table as it was.
C4_BlankSaveRejected ==
    \A p \in Procs :
        Done(p, "save_new_prompt") /\ AllWhitespace(arg[p].text) =>
            /\ retv[p] = Raised("ValueError")
            /\ table = snap[p]

\* a save of a whitespace-only text has returned on a non-empty table
C4_Witness ==
    \E p \in Procs :
        /\ Done(p, "save_new_prompt")
        /\ arg[p].text # <<>>
        /\ AllWhitespace(arg[p].text)
        /\ table # <<>>

\* C5: the prompts table is append-only under every interleaving of store,
\* HTTP and pipeline operations: each step keeps every row that was present,
\* at its place and with the same version, prompt_text and created_at.
C5_AppendOnly ==
    [][/\ Len(table') >= Len(table)
       /\ SubSeq(table', 1, Len(table)) = table]_vars

\* an /improve-ai request and a save_new_prompt have both added a row
C5_Witness ==
    /\ Len(table) = 2
    /\ \E p, q \in Procs :
         /\ p # q
         /\ Ok(p, "improve_ai_endpoint")
         /\ Done(q, "save_new_prompt") /\ retv[q].kind = "str"

-----------------------------------------------------------------------------
(* Properties of build_samples.                                            *)

IsIn(m) == m.direction = "in"
IsOut(m) == m.direction = "out"

MessagesOf(c) == conversations[c].conversation

\* the positions (from 1) at which a maximal run of "in" messages starts
RunStarts(msgs) ==
    {k \in 1..Len(msgs) : IsIn(msgs[k]) /\ (k = 1 \/ ~IsIn(msgs[k - 1]))}

\* the last position of the maximal "in" run that starts at k
InRunLast(msgs, k) ==
    CHOOSE e \in k..Len(msgs) :
        /\ \A x \in k..e : IsIn(msgs[x])
        /\ e = Len(msgs) \/ ~IsIn(msgs[e + 1])

\* the last position of the maximal "out" run that follows position e
\* (e itself when no "out" message follows)
OutRunLast(msgs, e) ==
    CHOOSE f \in e..Len(msgs) :
        /\ \A x \in (e + 1)..f : IsOut(msgs[x])
        /\ f = Len(msgs) \/ ~IsOut(msgs[f + 1])

\* the texts of msgs[a..b]
TextsBetween(msgs, a, b) ==
    [x \in 1..(b - a + 1) |->
        IF msgs[a + x - 1].text = Absent THEN "" ELSE msgs[a + x - 1].text]

\* the number of runs of the conversations before conversation c
RECURSIVE RunsBefore(_)
RunsBefore(c) ==
    IF c <= 1 THEN 0
    ELSE RunsBefore(c - 1) + Cardinality(RunStarts(MessagesOf(c - 1)))

\* the place among all samples of the run of conversation c that starts at k
SampleIndex(c, k) ==
    RunsBefore(c) + Cardinality({r \in RunStarts(MessagesOf(c)) : r <= k})

AllRuns ==
    {ck \in (1..Len(conversations)) \X (1..MaxMsgs + 1) :
        ck[2] \in RunStarts(MessagesOf(ck[1]))}

InOutOnly(msgs) == \A x \in 1..Len(msgs) : IsIn(msgs[x]) \/ IsOut(msgs[x])

\* C6: build_samples emits one Sample per maximal run of "in" messages, in
\* conversation order and conversations in input order; for a conversation
\* of "in" and "out" messages only, the sample's client_sequence is the
\* texts of the run and its consultant_reply the texts of the maximal run
\* of "out" messages right after it (empty when there is none).
C6_OneSamplePerRun ==
    bpc = "done" =>
        /\ Len(samples) = RunsBefore(Len(conversations) + 1)
        /\ \A ck \in AllRuns :
             LET msgs == MessagesOf(ck[1])
                 e == InRunLast(msgs, ck[2])
                 f == OutRunLast(msgs, e)
                 smp == samples[SampleIndex(ck[1], ck[2])]
             IN  InOutOnly(msgs) =>
                    /\ smp.contact_id = conversations[ck[1]].contact_id
                    /\ smp.client_sequence = TextsBetween(msgs, ck[2], e)
                    /\ smp.consultant_reply = TextsBetween(msgs, e + 1, f)

\* a conversation in, in, out, in: two samples, the first of a run of two
\* with one reply, the second with no reply
C6_Witness ==
    /\ bpc = "done"
    /\ Len(conversations) = 1
    /\ InOutOnly(MessagesOf(1))
    /\ Len(samples) = 2
    /\ Len(samples[1].client_sequence) = 2
    /\ Len(samples[1].consultant_reply) = 1
    /\ samples[2].consultant_reply = <<>>

\* C7: the chat_history of every emitted Sample is, at every later moment,
\* exactly the messages of its own conversation before the first message
\* of its "in" run, in order (consultant-initiated "out" messages and
\* messages of any other direction included).
C7_ChatHistoryIsPrefix ==
    /\ Len(samples) <= Cardinality(AllRuns)
    /\ \A ck \in AllRuns :
         SampleIndex(ck[1], ck[2]) <= Len(samples) =>
            heap[samples[SampleIndex(ck[1], ck[2])].chat_history]
                = SubSeq(MessagesOf(ck[1]), 1, ck[2] - 1)

\* the second conversation starts with an "out" message, its sample holds
\* that message as chat_history, and the running history has grown since
C7_Witness ==
    /\ bpc = "done"
    /\ Len(conversations) = 2
    /\ MessagesOf(1) # <<>>
    /\ \E n \in 1..Len(samples) :
         /\ samples[n].contact_id = "c2"
         /\ Len(heap[samples[n].chat_history]) = 1
         /\ IsOut(heap[samples[n].chat_history][1])
         /\ Len(heap[history]) > 1

-----------------------------------------------------------------------------
(* Properties of _normalize_chat_history.                                  *)

\* the positions of the entries whose role is "client" or "consultant"
KeptPositions(raw) ==
    {k \in 1..Len(raw) : raw[k].role = "client" \/ raw[k].role = "consultant"}

-----------------------------------------------------------------------------
(* Properties of the HTTP service.                                         *)

\* the request body has a non-blank string clientSequence and an array
\* chatHistory (or none, which stands for the empty array)
WellFormedGenerate(data) ==
    /\ data.type = "object"
    /\ data.clientSequence.type = "string"
    /\ ~AllWhitespace(data.clientSequence.s)
    /\ data.chatHistory.type \in {"list", "absent"}

\* the round trip succeeded and its content is a JSON object whose field
\* is a string
GoodContent(outcome, field) ==
    /\ outcome.kind = "completion"
    /\ outcome.content.text = "json"
    /\ outcome.content.value.type = "object"
    /\ outcome.content.value[field].type = "string"

\* a response of the given status whose body is {error: message}
IsErrorResponse(r, status) ==
    r.kind = "http" /\ r.status = status /\ DOMAIN r.body = {"error"}

\* C9: for a well-formed request, /generate-reply returns 200 {aiReply: X}
\* exactly when the LLM call succeeds with a JSON object whose reply is the
\* string X, and in every other case returns 500 with a body {error: message}.
C9_GenerateReplyOutcome ==
    \A p \in Procs :
        Done(p, "generate_reply_endpoint") /\ WellFormedGenerate(arg[p].data) =>
            IF GoodContent(llm[p], "reply")
            THEN retv[p] = Http(200, [aiReply |-> llm[p].content.value.reply.s])
            ELSE IsErrorResponse(retv[p], 500)

\* the text of the row of the maximum version
LatestText(t) == t[CHOOSE i \in LatestRows(t) : TRUE].prompt_text

\* C10: after an /improve-ai request answered with a 200, no other request
\* overlapping, the latest stored prompt text equals the response's
\* updatedPrompt, which equals the editor's prompt string verbatim, and
\* predictedReply equals the reply the generation call returned.
C10_ImproveVerbatim ==
    \A p \in Procs :
        Ok(p, "improve_ai_endpoint") =>
            /\ table # <<>>
            /\ LatestText(table) = retv[p].body.updatedPrompt
            /\ retv[p].body.updatedPrompt = llm[p].content.value.prompt.s
            /\ retv[p].body.predictedReply = loc[p].predicted_reply

\* the prompt in force for a call that started on table t: the latest row's
\* text, or the default prompt that get_latest_prompt seeds into an empty table
CurrentPromptOf(t) == IF t = <<>> THEN DEFAULT_BASE_PROMPT ELSE LatestText(t)

\* text is a trimmed prompt, the separator heading, and trimmed instructions
IsManualText(text, prompt, instructions) ==
    \E x \in {SubSeq(text, 1, k) : k \in 0..Len(text)} :
        \E y \in {SubSeq(text, k, Len(text)) : k \in 1..(Len(text) + 1)} :
            /\ text = x \o <<"\n", "\n", "# Additional manual instructions", "\n">> \o y
            /\ IsTrimOf(x, prompt)
            /\ IsTrimOf(y, instructions)

\* the body is an object whose instructions are a non-blank string
NonBlankInstructions(data) ==
    /\ data.type = "object"
    /\ data.instructions.type = "string"
    /\ ~AllWhitespace(data.instructions.s)

\* the claim as stated: the maximum version grows by exactly 1 from every
\* store state, the empty store included
C11_ManualAddsOneVersion ==
    \A p \in Procs :
        Done(p, "improve_ai_manually_endpoint") /\ NonBlankInstructions(arg[p].data) =>
            /\ Ok(p, "improve_ai_manually_endpoint")
            /\ MaxVersion(table) = MaxVersion(snap[p]) + 1
            /\ IsManualText(retv[p].body.updatedPrompt, CurrentPromptOf(snap[p]),
                            arg[p].data.instructions.s)

\* C11: every /improve-ai-manually call with non-blank instructions, no other
\* request overlapping, is answered with a 200 whose updatedPrompt is the
\* previous current prompt trimmed, the separator heading and the trimmed
\* instructions, and that text is the latest stored prompt; the maximum
\* version grows by exactly 1 from a non-empty store, and from an empty store
\* the default prompt is seeded as version 1 and the text saved as version 2.
C11_ManualVersions ==
    \A p \in Procs :
        Done(p, "improve_ai_manually_endpoint") /\ NonBlankInstructions(arg[p].data) =>
            /\ Ok(p, "improve_ai_manually_endpoint")
            /\ MaxVersion(table) =
                   IF snap[p] = <<>> THEN 2 ELSE MaxVersion(snap[p]) + 1
            /\ Len(table) = IF snap[p] = <<>> THEN 2 ELSE Len(snap[p]) + 1
            /\ IsManualText(retv[p].body.updatedPrompt, CurrentPromptOf(snap[p]),
                            arg[p].data.instructions.s)
            /\ LatestText(table) = retv[p].body.updatedPrompt

\* a second manual update in a row has been answered
C11_Witness ==
    \E p \in Procs :
        /\ Ok(p, "improve_ai_manually_endpoint")
        /\ Len(snap[p]) = 2
        /\ \E x \in {SubSeq(snap[p][2].prompt_text, k, k) :
                        k \in 1..Len(snap[p][2].prompt_text)} :
               x = <<"# Additional manual instructions">>

\* the three endpoints of the HTTP service
Endpoints ==
    {"generate_reply_endpoint", "improve_ai_endpoint",
     "improve_ai_manually_endpoint"}

\* the keys of an endpoint's success body
SuccessKeys(name) ==
    IF name = "generate_reply_endpoint" THEN {"aiReply"}
    ELSE IF name = "improve_ai_endpoint" THEN {"predictedReply", "updatedPrompt"}
    ELSE {"updatedPrompt"}

\* r is the endpoint's full success body or a single error object with
\* status 400 or 500
IsSuccessOrError(r, name) ==
    /\ r.kind = "http"
    /\ \/ r.status = 200 /\ DOMAIN r.body = SuccessKeys(name)
       \/ IsErrorResponse(r, 400)
       \/ IsErrorResponse(r, 500)

\* C12: every request to /generate-reply, /improve-ai and
\* /improve-ai-manually ends in the endpoint's full success body or in a
\* single JSON error object with status 400 or 500, whatever the request body
\* and whatever the LLM returns, a blank prompt from the editor included.
C12_SuccessOrErrorObject ==
    \A p \in Procs :
        pc[p] = "done" /\ op[p] \in Endpoints => IsSuccessOrError(retv[p], op[p])

\* an AI call of the trace that raised is named with its failure
Steps(tr) ==
    [k \in 1..Len(tr) |->
        IF tr[k].ok THEN tr[k].name
        ELSE IF tr[k].name = "generate" THEN "generate fails"
        ELSE "editor fails"]

IsPrefix(s, t) == Len(s) <= Len(t) /\ SubSeq(t, 1, Len(s)) = s

\* the statements of one read of the current prompt: the SELECT finds a row,
\* or finds none and is repeated after the COUNT and the seeding INSERT
PromptReads == {<<"select">>, <<"select", "count", "seed", "select">>}

\* the complete runs of /improve-ai after its validation: generate reply, read
\* the current prompt, editor call, save; or a stop at the AI call that fails
ImproveRuns ==
    UNION {{r1 \o <<"generate fails">>,
            r1 \o <<"generate">> \o r2 \o <<"editor fails">>,
            r1 \o <<"generate">> \o r2 \o <<"editor", "max", "insert">>,
            r1 \o <<"generate">> \o r2 \o <<"editor">>} :
           r1 \in PromptReads, r2 \in PromptReads}

\* C13: the steps of one /improve-ai request run in the order validate,
\* generate reply, read current prompt, editor call, save, and a failure stops
\* all later steps: a 400 makes no LLM call and no store access, a failed
\* generate call is followed by no editor call, and a failed AI call is
\* followed by no save.
C13_ImproveStepOrder ==
    \A p \in Procs :
        op[p] = "improve_ai_endpoint" =>
            /\ \E run \in ImproveRuns : IsPrefix(Steps(trace[p]), run)
            /\ pc[p] = "imp_validate" => trace[p] = <<>>
            /\ pc[p] = "done" /\ retv[p].kind = "http" =>
                 /\ retv[p].status = 400 => trace[p] = <<>> /\ table = snap[p]
                 /\ retv[p].status = 500 =>
                      /\ trace[p] # <<>>
                      /\ ~trace[p][Len(trace[p])].ok
                      /\ \A k \in 1..Len(trace[p]) :
                             trace[p][k].name \notin {"max", "insert"}
                      /\ \A i \in 1..Len(table) :
                             i > Len(snap[p]) => table[i].version = 1
                 /\ retv[p].status = 200 =>
                      Steps(trace[p]) \in ImproveRuns /\ Len(table) > Len(snap[p])

\* a request stopped by its editor call after a successful generate call
C13_Witness ==
    \E p \in Procs :
        /\ Done(p, "improve_ai_endpoint")
        /\ IsErrorResponse(retv[p], 500)
        /\ \E k \in 1..Len(trace[p]) : trace[p][k].name = "generate" /\ trace[p][k].ok
        /\ \E k \in 1..Len(trace[p]) : trace[p][k].name = "editor" /\ ~trace[p][k].ok

-----------------------------------------------------------------------------
(* Properties of the offline pipeline.                                     *)

\* the samples a run of the pipeline is to visit
SamplesOfRun(p) ==
    LET built == BuildSamples(arg[p].conversations)
    IN  IF arg[p].limit = NoLimit \/ arg[p].limit >= Len(built) THEN built
        ELSE SubSeq(built, 1, arg[p].limit)

\* the generate calls of a trace
GenerateCalls(tr) == {k \in 1..Len(tr) : tr[k].name = "generate"}

\* C14: for any outcome of the two AI calls on each sample (an error or any
\* returned string) the pipeline visits every one of the first N samples
\* exactly once in order and then terminates normally; no sample's outcome
\* aborts the run.
C14_PipelineVisitsAll ==
    \A p \in Procs :
        Done(p, "run_self_learning_pipeline") =>
            /\ retv[p] = NoValue
            /\ loc[p].idx = Len(SamplesOfRun(p))
            /\ Cardinality(GenerateCalls(trace[p])) = Len(SamplesOfRun(p))

\* the positions of the trace at which an event of the given name succeeded
Succeeded(tr, name) == {k \in 1..Len(tr) : tr[k].name = name /\ tr[k].ok}

\* the rows added to the table since the call of p began, the seeded default
\* row apart
NewVersions(p) ==
    Len(table) - Len(snap[p]) - Cardinality(Succeeded(trace[p], "seed"))

\* C15: between two samples and at the point where a run ends or crashes, the
\* store holds one new version for every sample whose generate and editor
\* calls both succeeded so far and none for a skipped sample; every save
\* precedes the AI calls of the next sample.
C15_SavedAfterEachSample ==
    \A p \in Procs :
        op[p] = "run_self_learning_pipeline" /\ pc[p] \in {"pipe_loop", "done"} =>
            /\ NewVersions(p) = Cardinality(Succeeded(trace[p], "editor"))
            /\ \A e \in Succeeded(trace[p], "editor") :
                   /\ e > 1 /\ trace[p][e - 1].name \in {"generate"}
                   /\ trace[p][e - 1].ok
                   /\ e + 2 <= Len(trace[p])
                   /\ trace[p][e + 1].name = "max"
                   /\ trace[p][e + 2].name = "insert"

-----------------------------------------------------------------------------
(* Properties of overlapping calls.                                        *)

\* two rows of t carry the same version
DuplicateVersion(t) ==
    \E i, j \in 1..Len(t) : i # j /\ t[i].version = t[j].version

\* C16: save_new_prompt reads the maximum version and inserts in two steps;
\* when another call has inserted between the two, and only then, the row it
\* inserts carries a version the table already holds, so overlapping saves
\* reach a table with two rows of the same version.
C16_StaleSaveCollides ==
    [][\A p \in Procs :
           pc[p] = "save_insert" /\ pc'[p] # "save_insert" =>
               /\ Len(table') = Len(table) + 1
               /\ table'[Len(table')].version = loc[p].current_version + 1
               /\ (\E i \in 1..Len(table) :
                       table[i].version = table'[Len(table')].version)
                   <=> (\E i \in 1..Len(table) :
                           table[i].version > loc[p].current_version)]_vars

\* two overlapping saves have completed and their rows carry the same version
C16_Witness ==
    /\ \A p \in Procs : Done(p, "save_new_prompt") /\ retv[p].kind = "str"
    /\ Len(table) = 2
    /\ table[1].version = table[2].version
    /\ DuplicateVersion(table)

\* some integer between 1 and the maximum stored version is the version of
\* no row
SkippedVersion(t) ==
    \E i \in 1..Len(t) : \E v \in 1..t[i].version :
        \A j \in 1..Len(t) : t[j].version # v

\* the claim as stated: overlapping saves reach a table with a skipped version
C17_SkippedVersionReached == <>SkippedVersion(table)

\* C17: under overlapping calls of the store no version number is ever
\* skipped: every integer between 1 and the maximum stored version is the
\* version of some row (overlapping saves repeat versions, they skip none).
C17_NoVersionSkipped == ~SkippedVersion(table)

\* two saves that both began on the empty table have both inserted
C17_Witness ==
    /\ \A p \in Procs :
          Done(p, "save_new_prompt") /\ retv[p].kind = "str" /\ snap[p] = <<>>
    /\ \A i \in 1..Len(table) : table[i].version = 1
    /\ Len(table) = 2

\* the positions of the events called name in the trace tr
Events(tr, name) == {k \in 1..Len(tr) : tr[k].name = name}

\* the prompt a request holds after the SELECT at position k of its trace:
\* the fetched text, or the default prompt when the row's text is empty
PromptRead(tr, k) ==
    IF tr[k].text = <<>> THEN DEFAULT_BASE_PROMPT ELSE tr[k].text

\* C18: two overlapping /improve-ai requests can both read the same current
\* prompt before either saves, so the prompt saved second was edited from a
\* stale baseline. The mechanism: the baseline a request gives the editor is
\* the prompt its own latest SELECT fetched, and the request reads the prompt
\* no more between the editor call and its INSERT, whatever was saved meanwhile
C18_EditsFromOwnRead ==
    \A p \in Procs :
        op[p] = "improve_ai_endpoint" =>
            \A k \in Events(trace[p], "editor") :
                /\ \E j \in Events(trace[p], "select") :
                      /\ j < k
                      /\ \A i \in Events(trace[p], "select") : i <= j
                      /\ trace[p][k].text = PromptRead(trace[p], j)

\* both requests were answered with a 200, both gave the editor the same
\* baseline, the two edits were saved one after the other and the latest
\* prompt is an edit of the baseline, not of the edit saved first
C18_Witness ==
    /\ \A p \in Procs : Ok(p, "improve_ai_endpoint")
    /\ Len(table) = 3
    /\ \A i \in 1..3 : table[i].version = i
    /\ table[2].prompt_text # table[1].prompt_text
    /\ table[3].prompt_text # table[2].prompt_text
    /\ LatestText(table) = table[3].prompt_text
    /\ \A p \in Procs :
          \A k \in Events(trace[p], "editor") :
              trace[p][k].text = table[1].prompt_text

\* C19: build_samples terminates on every finite input: each step of the
\* scan loop advances the scan index by at least one and never past the end
\* of the conversation, the running history is at every moment the messages
\* scanned so far (each consumed once, in order), and when the scan of a
\* conversation ends the history is the whole conversation.
C19_BuildSamplesTerminates ==
    /\ [](bpc = "while" =>
            /\ bi <= Len(CurrentMessages)
            /\ heap[history] = SubSeq(CurrentMessages, 1, bi))
    /\ [][/\ (bpc = "while" /\ bpc' = "while") => bi' > bi
          /\ (bpc = "while" /\ bpc' = "for") =>
                heap'[history'] = conversations[ci].conversation]_vars
    /\ <>(bpc = "done")

\* build_samples has returned; the last conversation held a message that is
\* neither "in" nor "out", a run of "in" messages and an "out" message, and
\* the history is that conversation
C19_Witness ==
    /\ bpc = "done"
    /\ ci = Len(conversations)
    /\ ci > 0
    /\ Len(CurrentMessages) >= 3
    /\ \E k \in 1..Len(CurrentMessages) :
          Get(CurrentMessages[k], "direction", None) \notin {"in", "out"}
    /\ \E k \in 1..Len(CurrentMessages) : IsOut(CurrentMessages[k])
    /\ samples # <<>>
    /\ heap[history] = CurrentMessages

\* C20: in a run of the pipeline with no other writer to the store, the
\* existingPrompt passed to the editor for a sample is the prompt that the
\* sample's generate call read from the store and used as system instruction.
C20_EditorGetsStoredPrompt ==
    \A p \in Procs :
        op[p] = "run_self_learning_pipeline" =>
            \A e \in Events(trace[p], "editor") :
                /\ e > 1
                /\ trace[p][e - 1].name = "generate"
                /\ trace[p][e].text = trace[p][e - 1].text

\* the rows of t that carry version 1
FirstVersionRows(t) == {i \in 1..Len(t) : t[i].version = 1}

\* C21: under any interleaving of overlapping store operations on an
\* initially empty store the default prompt is seeded at most once:
\* initialize_prompt_if_empty inserts its version-1 row only when the table
\* has no row at the moment of the insert, and the table never holds two rows
\* of version 1.
C21_SeededAtMostOnce ==
    [][/\ \A p \in Procs :
             /\ pc[p] = "init_insert"
             /\ pc'[p] # "init_insert"
             /\ table' # table
             => table = <<>>
       /\ Cardinality(FirstVersionRows(table')) <= 1]_vars

====
